---------------------------- MODULE Spec2Model ----------------------------
(***************************************************************************)
(* Model of mint-api's transaction core: the consensus encoding            *)
(* (src/mint-api/src/encoding.rs) and the transaction model with its       *)
(* funding and signature validation (src/mint-api/src/transaction.rs).     *)
(*                                                                         *)
(* The operations are pure functions of a Transaction value, so the state  *)
(* is one transaction `tx` (drawn by Init from bounded pools) and `last`,  *)
(* the most recent call with its arguments and its outcome.                *)
(***************************************************************************)
EXTENDS Integers, Sequences, FiniteSets, TLC

VARIABLES tx, last

vars == <<tx, last>>

(***************************************************************************)
(* Bounds of the model.                                                    *)
(***************************************************************************)
\* Total number of coins, blind tokens, peg-ins and peg-outs of a transaction.
MaxSize == 3
\* Width of Amount's integer.  The program's is 64 bits; the model scales it
\* down so that TLC's integers can hold every intermediate value.
AmountBits == 12
\* Largest fee of a fee schedule (FeeConsensus is configuration).
MaxFee == 1

AmountModulus == 2 ^ AmountBits

\* Amount counts milli-satoshi: Amount::from_sat and From<bitcoin::Amount>.
MsatPerSat == 1000

(***************************************************************************)
(* Small helpers.                                                          *)
(***************************************************************************)
RECURSIVE SeqSum(_)
SeqSum(s) == IF s = <<>> THEN 0 ELSE Head(s) + SeqSum(Tail(s))

RECURSIVE Flatten(_)
Flatten(ss) == IF ss = <<>> THEN <<>> ELSE Head(ss) \o Flatten(Tail(ss))

RECURSIVE SortedSeq(_)
\* The elements of a finite set of integers in ascending order.
SortedSeq(S) ==
    IF S = {} THEN <<>>
    ELSE LET m == CHOOSE x \in S : \A y \in S : x <= y
         IN  <<m>> \o SortedSeq(S \ {m})

(***************************************************************************)
(* Amount: an unsigned integer of AmountBits bits.  `ovf` records that an  *)
(* arithmetic step overflowed: a build with overflow checks panics there,  *)
(* a build without them goes on with the wrapped value.                    *)
(***************************************************************************)
Amt(n) == [milli_sat |-> n % AmountModulus, ovf |-> n >= AmountModulus]

AmountZero == [milli_sat |-> 0, ovf |-> FALSE]

AmountAdd(a, b) ==
    [milli_sat |-> (a.milli_sat + b.milli_sat) % AmountModulus,
     ovf       |-> a.ovf \/ b.ovf \/ a.milli_sat + b.milli_sat >= AmountModulus]

AmountMul(a, n) ==
    [milli_sat |-> (a.milli_sat * n) % AmountModulus,
     ovf       |-> a.ovf \/ a.milli_sat * n >= AmountModulus]

RECURSIVE AmountSumFrom(_, _)
AmountSumFrom(acc, s) ==
    IF s = <<>> THEN acc ELSE AmountSumFrom(AmountAdd(acc, Head(s)), Tail(s))

\* iter.sum::<Amount>()
AmountSum(s) == AmountSumFrom(AmountZero, s)

\* Amount::from_sat(sat) and From<bitcoin::Amount>
AmountFromSat(sat) == AmountMul([milli_sat |-> MsatPerSat, ovf |-> FALSE], sat)

(***************************************************************************)
(* Coins<T>: a map from tier (an Amount) to the ordered coins of the tier. *)
(* A bundle is the record [coins |-> map], as the struct's field.          *)
(***************************************************************************)
\* Coins::iter: the (tier, coin) pairs, tiers ascending, coins in order.
CoinsIter(c) ==
    LET tiers == SortedSeq(DOMAIN c.coins)
    IN  Flatten([i \in 1..Len(tiers) |->
                   [j \in 1..Len(c.coins[tiers[i]]) |->
                      <<tiers[i], c.coins[tiers[i]][j]>>]])

\* Coins::amount: the sum over the tiers of tier value times coin count.
CoinsAmount(c) ==
    LET tiers == SortedSeq(DOMAIN c.coins)
    IN  AmountSum([i \in 1..Len(tiers) |->
                     AmountMul(Amt(tiers[i]), Len(c.coins[tiers[i]]))])

\* coins.coins.len(): the number of entries of the tier map.
CoinsLen(c) == Cardinality(DOMAIN c.coins)

(***************************************************************************)
(* TransactionItem for Input and Output.                                   *)
(***************************************************************************)
InputAmount(input) ==
    IF input.tag = "Coins" THEN CoinsAmount(input.coins)
    ELSE AmountFromSat(input.proof.value)

InputFee(input, fee_consensus) ==
    IF input.tag = "Coins"
    THEN AmountMul(Amt(fee_consensus.fee_coin_spend_abs), CoinsLen(input.coins))
    ELSE Amt(fee_consensus.fee_peg_in_abs)

OutputAmount(output) ==
    IF output.tag = "Coins" THEN CoinsAmount(output.coins)
    ELSE AmountFromSat(output.peg_out.amount)

OutputFee(output, fee_consensus) ==
    IF output.tag = "Coins"
    THEN AmountMul(Amt(fee_consensus.fee_coin_spend_abs), CoinsLen(output.coins))
    ELSE Amt(fee_consensus.fee_peg_out_abs)

(***************************************************************************)
(* Transaction::validate_funding.  `overflow_checks` is the build profile. *)
(***************************************************************************)
\* A strict comparison, which rejects an exactly funded transaction.
FundedStrict(in_amount, needed) == in_amount > needed
\* in_amount >= (out_amount + fee_amount)
Funded(in_amount, needed) == in_amount >= needed

validate_funding(t, fee_consensus, overflow_checks) ==
    LET in_amount  == AmountSum([i \in 1..Len(t.inputs) |-> InputAmount(t.inputs[i])])
        out_amount == AmountSum([i \in 1..Len(t.outputs) |-> OutputAmount(t.outputs[i])])
        fee_amount ==
            AmountAdd(
              AmountSum([i \in 1..Len(t.inputs) |-> InputFee(t.inputs[i], fee_consensus)]),
              AmountSum([i \in 1..Len(t.outputs) |-> OutputFee(t.outputs[i], fee_consensus)]))
        needed     == AmountAdd(out_amount, fee_amount)
    IN  IF overflow_checks /\ (in_amount.ovf \/ needed.ovf)
        THEN [tag |-> "Panic"]
        ELSE IF Funded(in_amount.milli_sat, needed.milli_sat)
        THEN [tag |-> "Ok"]
        ELSE [tag     |-> "InsufficientlyFunded",
              inputs  |-> in_amount.milli_sat,
              outputs |-> out_amount.milli_sat,
              fee     |-> fee_amount.milli_sat]

(***************************************************************************)
(* Canonical encoding.  An encoder's result is what it wrote to the writer *)
(* (`bytes`) and the length it returned (`len`).  The writers of this code *)
(* (a hash engine, a Vec) never fail.                                      *)
(***************************************************************************)
RECURSIVE LeBytes(_, _)
\* to_le_bytes: the w low bytes of n, least significant first.
LeBytes(n, w) ==
    IF w = 0 THEN <<>> ELSE <<n % 256>> \o LeBytes(n \div 256, w - 1)

\* impl_encode_num!(u64)
EncodeU64(n) ==
    LET bytes == LeBytes(n, 8)
    IN  [bytes |-> bytes, len |-> Len(bytes)]

\* Encodable for bitcoin::Amount
EncodeBitcoinAmount(sat) == EncodeU64(sat)

\* Encodable for &[T], given each item's encoding in order.
EncodeSlice(items) ==
    LET count == EncodeU64(Len(items))
    IN  [bytes |-> count.bytes \o Flatten([i \in 1..Len(items) |-> items[i].bytes]),
         len   |-> count.len + SeqSum([i \in 1..Len(items) |-> items[i].len])]

\* bitcoin::Script's consensus encoding: a compact-size length, then the bytes
\* (scripts of the model are shorter than 253 bytes: one length byte).
EncodeScript(script) ==
    [bytes |-> <<Len(script)>> \o script, len |-> 1 + Len(script)]

\* A recipient form that keeps the network next to the script.
ScriptPubkeyWithNetwork(address) ==
    address.script \o <<IF address.network = "bitcoin" THEN 0 ELSE 1>>

\* Address::script_pubkey: the output script, whatever the network.
ScriptPubkey(address) == address.script

\* Encodable for PegOut
EncodePegOut(peg_out) ==
    LET script == EncodeScript(ScriptPubkey(peg_out.recipient))
        amount == EncodeBitcoinAmount(peg_out.amount)
    IN  [bytes |-> script.bytes \o amount.bytes, len |-> script.len + amount.len]

\* BlindedMessage::encode_compressed: the 48-byte compressed group element.
EncodeCompressed(msg) == [i \in 1..48 |-> IF i = 1 THEN msg ELSE 0]

\* Encodable for BlindToken
EncodeBlindToken(token) ==
    [bytes |-> EncodeCompressed(token.msg), len |-> 48]

\* Encodable for Coin: the coin's key (its other fields are left out).
EncodeCoin(coin) == [bytes |-> <<coin.spend_key>>, len |-> 1]

\* Encodable for Coins<T>: the coin count, then each (tier, coin) of iter().
EncodeCoins(c, items) ==
    LET it    == CoinsIter(c)
        count == EncodeU64(Len(it))
        tier(i) == EncodeU64(it[i][1])
    IN  [bytes |-> count.bytes \o
                   Flatten([i \in 1..Len(it) |-> tier(i).bytes \o items[i].bytes]),
         len   |-> count.len +
                   SeqSum([i \in 1..Len(it) |-> tier(i).len + items[i].len])]

CoinItems(c) == [i \in 1..Len(CoinsIter(c)) |-> EncodeCoin(CoinsIter(c)[i][2])]
TokenItems(c) == [i \in 1..Len(CoinsIter(c)) |-> EncodeBlindToken(CoinsIter(c)[i][2])]

\* Encodable for PegInProof: the output's value and the tweaked key (the
\* proof's other fields are left out).
EncodePegInProof(proof) ==
    LET value == EncodeU64(proof.value)
    IN  [bytes |-> value.bytes \o <<proof.tweak_contract_key>>, len |-> value.len + 1]

\* An Input encoder that leaves the discriminant byte out of its length.
EncodeInputNoTag(input) ==
    LET payload == IF input.tag = "Coins"
                   THEN EncodeCoins(input.coins, CoinItems(input.coins))
                   ELSE EncodePegInProof(input.proof)
    IN  [bytes |-> <<IF input.tag = "Coins" THEN 0 ELSE 1>> \o payload.bytes,
         len   |-> payload.len]

\* Encodable for Input
EncodeInput(input) ==
    LET payload == IF input.tag = "Coins"
                   THEN EncodeCoins(input.coins, CoinItems(input.coins))
                   ELSE EncodePegInProof(input.proof)
    IN  [bytes |-> <<IF input.tag = "Coins" THEN 0 ELSE 1>> \o payload.bytes,
         len   |-> payload.len + 1]

\* Encodable for Output
EncodeOutput(output) ==
    LET payload == IF output.tag = "Coins"
                   THEN EncodeCoins(output.coins, TokenItems(output.coins))
                   ELSE EncodePegOut(output.peg_out)
    IN  [bytes |-> <<IF output.tag = "Coins" THEN 0 ELSE 1>> \o payload.bytes,
         len   |-> payload.len + 1]

EncodeInputs(inputs) == EncodeSlice([i \in 1..Len(inputs) |-> EncodeInput(inputs[i])])
EncodeOutputs(outputs) == EncodeSlice([i \in 1..Len(outputs) |-> EncodeOutput(outputs[i])])

(***************************************************************************)
(* Transaction identity.  The hash engine is collision-free: the digest of *)
(* a byte stream is modelled by the stream itself.                         *)
(***************************************************************************)
FromEngine(engine) == [digest_of |-> engine]

\* A hash that feeds the outputs to the engine before the inputs.
tx_hash_from_parts_outputs_first(inputs, outputs) ==
    FromEngine(EncodeOutputs(outputs).bytes \o EncodeInputs(inputs).bytes)

\* Transaction::tx_hash_from_parts
tx_hash_from_parts(inputs, outputs) ==
    LET engine0 == <<>>
        engine1 == engine0 \o EncodeInputs(inputs).bytes
        engine2 == engine1 \o EncodeOutputs(outputs).bytes
    IN  FromEngine(engine2)

\* A hash that also covers the signature.
tx_hash_signed(t) ==
    FromEngine(EncodeInputs(t.inputs).bytes \o EncodeOutputs(t.outputs).bytes
               \o t.signature.signers \o t.signature.msg.digest_of)

\* Transaction::tx_hash
tx_hash(t) == tx_hash_from_parts(t.inputs, t.outputs)

(***************************************************************************)
(* Signature validation.  musig is an external capability: a signature is  *)
(* modelled by the message and the keys that made it, and verify is sound: *)
(* it accepts exactly the signature made over that message by those keys,  *)
(* in any order.                                                           *)
(***************************************************************************)
RECURSIVE Insert(_, _)
Insert(k, s) ==
    IF s = <<>> THEN <<k>>
    ELSE IF k <= Head(s) THEN <<k>> \o s
    ELSE <<Head(s)>> \o Insert(k, Tail(s))

RECURSIVE SortKeys(_)
SortKeys(s) == IF s = <<>> THEN <<>> ELSE Insert(Head(s), SortKeys(Tail(s)))

\* musig::sign
MusigSign(msg, keys) == [msg |-> msg, signers |-> SortKeys(keys)]

\* musig::verify
MusigVerify(msg, sig, public_keys) ==
    sig.msg = msg /\ sig.signers = SortKeys(public_keys)

\* Keys of the Coins inputs only: a PegIn input contributes none.
authorization_keys_coins_only(input) ==
    IF input.tag = "Coins"
    THEN [i \in 1..Len(CoinsIter(input.coins)) |-> CoinsIter(input.coins)[i][2].spend_key]
    ELSE <<>>

\* Input::authorization_keys
authorization_keys(input) ==
    IF input.tag = "Coins"
    THEN [i \in 1..Len(CoinsIter(input.coins)) |-> CoinsIter(input.coins)[i][2].spend_key]
    ELSE <<input.proof.tweak_contract_key>>

\* Transaction::validate_signature
validate_signature(t) ==
    LET public_keys ==
            Flatten([i \in 1..Len(t.inputs) |-> authorization_keys(t.inputs[i])])
    IN  IF MusigVerify(tx_hash(t), t.signature, public_keys)
        THEN [tag |-> "Ok"]
        ELSE [tag |-> "InvalidSignature"]

(***************************************************************************)
(* Decoding.  transaction.rs implements no Decodable; the decoders below   *)
(* read the byte formats of the spec (4.1, 6).  A decoder's result is      *)
(* either DecodeError or the value with the bytes left in the reader.      *)
(***************************************************************************)
DecodeError == [ok |-> FALSE]

Decoded(value, rest) == [ok |-> TRUE, value |-> value, rest |-> rest]

RECURSIVE FromLeBytes(_)
FromLeBytes(bytes) ==
    IF bytes = <<>> THEN 0 ELSE Head(bytes) + 256 * FromLeBytes(Tail(bytes))

DecodeU64(bytes) ==
    IF Len(bytes) < 8 THEN DecodeError
    ELSE Decoded(FromLeBytes(SubSeq(bytes, 1, 8)), SubSeq(bytes, 9, Len(bytes)))

DecodeCoin(bytes) ==
    IF Len(bytes) < 1 THEN DecodeError
    ELSE Decoded([spend_key |-> bytes[1]], Tail(bytes))

\* The 48 bytes of a compressed blinded message.
DecodeBlindToken(bytes) ==
    IF Len(bytes) < 48 THEN DecodeError
    ELSE IF \E i \in 2..48 : bytes[i] # 0 THEN DecodeError
    ELSE Decoded([msg |-> bytes[1]], SubSeq(bytes, 49, Len(bytes)))

DecodeCoinsItem(bytes, of_tokens) ==
    IF of_tokens THEN DecodeBlindToken(bytes) ELSE DecodeCoin(bytes)

RECURSIVE DecodeCoinsItems(_, _, _, _)
\* n times a tier and a coin, each coin appended to its tier of `map`.
DecodeCoinsItems(n, bytes, map, of_tokens) ==
    IF n = 0 THEN Decoded([coins |-> map], bytes)
    ELSE LET tier == DecodeU64(bytes)
         IN  IF ~tier.ok THEN DecodeError
             ELSE LET item == DecodeCoinsItem(tier.rest, of_tokens)
                  IN  IF ~item.ok THEN DecodeError
                      ELSE DecodeCoinsItems(
                             n - 1, item.rest,
                             [t \in DOMAIN map \cup {tier.value} |->
                                (IF t \in DOMAIN map THEN map[t] ELSE <<>>)
                                \o (IF t = tier.value THEN <<item.value>> ELSE <<>>)],
                             of_tokens)

DecodeCoins(bytes, of_tokens) ==
    LET count == DecodeU64(bytes)
    IN  IF ~count.ok THEN DecodeError
        ELSE DecodeCoinsItems(count.value, count.rest, <<>>, of_tokens)

DecodePegInProof(bytes) ==
    LET value == DecodeU64(bytes)
    IN  IF ~value.ok \/ Len(value.rest) < 1 THEN DecodeError
        ELSE Decoded([value |-> value.value, tweak_contract_key |-> value.rest[1]],
                     Tail(value.rest))

DecodeScript(bytes) ==
    IF Len(bytes) < 1 \/ Len(bytes) < 1 + bytes[1] THEN DecodeError
    ELSE Decoded(SubSeq(bytes, 2, 1 + bytes[1]), SubSeq(bytes, 2 + bytes[1], Len(bytes)))

\* The network a decoder gives the address it rebuilds from a script: the
\* byte stream holds none (transaction.rs, the TODO of PegOut's encoder).
DecodeNetwork == "bitcoin"

DecodePegOut(bytes) ==
    LET script == DecodeScript(bytes)
    IN  IF ~script.ok THEN DecodeError
        ELSE LET amount == DecodeU64(script.rest)
             IN  IF ~amount.ok THEN DecodeError
                 ELSE Decoded([recipient |-> [script  |-> script.value,
                                              network |-> DecodeNetwork],
                               amount    |-> amount.value],
                              amount.rest)

Tagged(tag, field, payload) ==
    IF ~payload.ok THEN DecodeError
    ELSE Decoded([x \in {"tag", field} |-> IF x = "tag" THEN tag ELSE payload.value],
                 payload.rest)

\* An Input decoder that takes every discriminant but 0x00 for a PegIn.
DecodeInputLenient(bytes) ==
    IF bytes = <<>> THEN DecodeError
    ELSE IF bytes[1] = 0 THEN Tagged("Coins", "coins", DecodeCoins(Tail(bytes), FALSE))
    ELSE Tagged("PegIn", "proof", DecodePegInProof(Tail(bytes)))

\* Decodable for Input: the discriminant byte, then the variant's payload.
DecodeInput(bytes) ==
    IF bytes = <<>> THEN DecodeError
    ELSE IF bytes[1] = 0 THEN Tagged("Coins", "coins", DecodeCoins(Tail(bytes), FALSE))
    ELSE IF bytes[1] = 1 THEN Tagged("PegIn", "proof", DecodePegInProof(Tail(bytes)))
    ELSE DecodeError

\* Decodable for Output
DecodeOutput(bytes) ==
    IF bytes = <<>> THEN DecodeError
    ELSE IF bytes[1] = 0 THEN Tagged("Coins", "coins", DecodeCoins(Tail(bytes), TRUE))
    ELSE IF bytes[1] = 1 THEN Tagged("PegOut", "peg_out", DecodePegOut(Tail(bytes)))
    ELSE DecodeError

(***************************************************************************)
(* The pools Init draws the transaction from.                              *)
(***************************************************************************)
Tiers == {1, 2}
\* Tiers of the spec's end-to-end scenario (1000 in, two coins out), and a
\* tier of half the range of Amount: two coins of it do not fit an Amount.
ScenarioTiers == {1, 2, 499, 996, 997, 1000, AmountModulus \div 2}
\* Satoshi values of peg-ins and peg-outs; the largest does not fit an
\* Amount once converted to milli-satoshi.
SatValues == {1, 5}
Networks == {"bitcoin", "testnet"}
Scripts == {<<81>>}

\* Keys are one byte each; a coin's key is distinct per tier and position.
KeyOf(tier, j) == (4 * tier + j) % 256

Coin(tier, j) == [spend_key |-> KeyOf(tier, j)]
BlindToken(tier, j) == [msg |-> KeyOf(tier, j)]

\* The ways to spread exactly n coins over `tiers`.
CountsOf(tiers, n) ==
    {f \in [tiers -> 0..n] :
        SeqSum([i \in 1..Len(SortedSeq(tiers)) |-> f[SortedSeq(tiers)[i]]]) = n}

\* The bundles over `tiers` holding exactly n coins, without empty tier entries.
CoinBundles(tiers, n) ==
    {[coins |-> [t \in {u \in tiers : cnt[u] > 0} |->
                    [j \in 1..cnt[t] |-> Coin(t, j)]]] : cnt \in CountsOf(tiers, n)}

TokenBundles(tiers, n) ==
    {[coins |-> [t \in {u \in tiers : cnt[u] > 0} |->
                    [j \in 1..cnt[t] |-> BlindToken(t, j)]]] : cnt \in CountsOf(tiers, n)}

InputsOfSize(n) ==
    {[tag |-> "Coins", coins |-> b] :
        b \in CoinBundles(Tiers, n) \cup
              (IF n = 1 THEN CoinBundles(Tiers, 0) ELSE {})}
    \cup (IF n = 1
          THEN {[tag |-> "PegIn",
                 proof |-> [value |-> v, tweak_contract_key |-> 200 + v]] :
                   v \in SatValues}
          ELSE {})

OutputsOfSize(n) ==
    {[tag |-> "Coins", coins |-> b] :
        b \in TokenBundles(Tiers, n) \cup
              (IF n = 1 THEN TokenBundles(Tiers, 0) ELSE {})}
    \cup (IF n = 1
          THEN {[tag |-> "PegOut",
                 peg_out |-> [recipient |-> [script |-> s, network |-> net],
                              amount |-> v]] :
                   s \in Scripts, net \in Networks, v \in SatValues}
          ELSE {})

RECURSIVE InputSeqs(_)
\* The input sequences whose sizes add up to n.
InputSeqs(n) ==
    IF n = 0 THEN {<<>>}
    ELSE UNION {{<<x>> \o s : x \in InputsOfSize(k), s \in InputSeqs(n - k)} :
                  k \in 1..n}

RECURSIVE OutputSeqs(_)
OutputSeqs(n) ==
    IF n = 0 THEN {<<>>}
    ELSE UNION {{<<x>> \o s : x \in OutputsOfSize(k), s \in OutputSeqs(n - k)} :
                  k \in 1..n}

FeeSchedules ==
    [fee_coin_spend_abs : 0..MaxFee, fee_peg_in_abs : 0..MaxFee,
     fee_peg_out_abs : 0..MaxFee]

(***************************************************************************)
(* The quantities of the specification, in unbounded integers.             *)
(***************************************************************************)
\* Number of coin units of a bundle: every coin of every tier.
UnitCount(c) ==
    LET tiers == SortedSeq(DOMAIN c.coins)
    IN  SeqSum([i \in 1..Len(tiers) |-> Len(c.coins[tiers[i]])])

\* Sum over the tiers of tier value times coin count.
ExactCoinsAmount(c) ==
    LET tiers == SortedSeq(DOMAIN c.coins)
    IN  SeqSum([i \in 1..Len(tiers) |-> tiers[i] * Len(c.coins[tiers[i]])])

ExactInputAmount(input) ==
    IF input.tag = "Coins" THEN ExactCoinsAmount(input.coins)
    ELSE input.proof.value * MsatPerSat

ExactOutputAmount(output) ==
    IF output.tag = "Coins" THEN ExactCoinsAmount(output.coins)
    ELSE output.peg_out.amount * MsatPerSat

ExactInputFee(input, fc) ==
    IF input.tag = "Coins" THEN fc.fee_coin_spend_abs * UnitCount(input.coins)
    ELSE fc.fee_peg_in_abs

ExactOutputFee(output, fc) ==
    IF output.tag = "Coins" THEN fc.fee_coin_spend_abs * UnitCount(output.coins)
    ELSE fc.fee_peg_out_abs

ExactIn(t) == SeqSum([i \in 1..Len(t.inputs) |-> ExactInputAmount(t.inputs[i])])
ExactOut(t) == SeqSum([i \in 1..Len(t.outputs) |-> ExactOutputAmount(t.outputs[i])])
ExactFee(t, fc) ==
    SeqSum([i \in 1..Len(t.inputs) |-> ExactInputFee(t.inputs[i], fc)])
    + SeqSum([i \in 1..Len(t.outputs) |-> ExactOutputFee(t.outputs[i], fc)])

Ok == [tag |-> "Ok"]

InsufficientlyFunded(i, o, f) ==
    [tag |-> "InsufficientlyFunded", inputs |-> i, outputs |-> o, fee |-> f]

\* The keys a signer has to sign with (spec 4.4): every coin's spend key of
\* a Coins input, the tweaked contract key of a PegIn input, in input order.
RECURSIVE RequiredKeys(_)
RequiredKeys(inputs) ==
    IF inputs = <<>> THEN <<>>
    ELSE LET input == Head(inputs)
             tiers == SortedSeq(IF input.tag = "Coins" THEN DOMAIN input.coins.coins ELSE {})
             own   == IF input.tag = "Coins"
                      THEN Flatten([i \in 1..Len(tiers) |->
                             [j \in 1..Len(input.coins.coins[tiers[i]]) |->
                                input.coins.coins[tiers[i]][j].spend_key]])
                      ELSE <<input.proof.tweak_contract_key>>
         IN  own \o RequiredKeys(Tail(inputs))

RECURSIVE CoinKeysOnly(_)
CoinKeysOnly(inputs) ==
    IF inputs = <<>> THEN <<>>
    ELSE (IF Head(inputs).tag = "Coins" THEN RequiredKeys(<<Head(inputs)>>) ELSE <<>>)
         \o CoinKeysOnly(Tail(inputs))

\* The signatures a transaction may carry: the right one, one missing the
\* peg-in keys, one with a foreign key, one over another message.
SignaturesFor(ins, outs) ==
    {MusigSign(tx_hash_from_parts(ins, outs), RequiredKeys(ins)),
     MusigSign(tx_hash_from_parts(ins, outs), CoinKeysOnly(ins)),
     MusigSign(tx_hash_from_parts(ins, outs), RequiredKeys(ins) \o <<255>>),
     MusigSign(tx_hash_from_parts(<<>>, <<>>), RequiredKeys(ins))}

NoCall == [op |-> "none"]

\* Any transaction up to MaxSize, with any of its signatures.
InitAny ==
    \E a \in 0..MaxSize : \E b \in 0..(MaxSize - a) :
      \E ins \in InputSeqs(a) : \E outs \in OutputSeqs(b) :
        \E sig \in SignaturesFor(ins, outs) :
          tx = [inputs |-> ins, outputs |-> outs, signature |-> sig]

\* The transactions of the spec's end-to-end scenario: one Coins input of
\* one coin, one Coins output of two coins.
InitScenario ==
    \E cin \in CoinBundles(ScenarioTiers, 1) : \E cout \in TokenBundles(ScenarioTiers, 2) :
      LET ins  == <<[tag |-> "Coins", coins |-> cin]>>
          outs == <<[tag |-> "Coins", coins |-> cout]>>
      IN  \E sig \in SignaturesFor(ins, outs) :
            tx = [inputs |-> ins, outputs |-> outs, signature |-> sig]

Init ==
    /\ InitAny \/ InitScenario
    /\ last = NoCall

\* consensus_encode of a value, by its type.
consensus_encode(kind, value) ==
    CASE kind = "inputs"      -> EncodeInputs(value)
      [] kind = "outputs"     -> EncodeOutputs(value)
      [] kind = "u64"         -> EncodeU64(value)
      [] kind = "input"       -> EncodeInput(value)
      [] kind = "output"      -> EncodeOutput(value)
      [] kind = "peg_out"     -> EncodePegOut(value)
      [] kind = "amount"      -> EncodeBitcoinAmount(value)
      [] kind = "blind_token" -> EncodeBlindToken(value)

\* The byte streams a decoder is called on: an encoding, an encoding with a
\* foreign first byte, a truncated encoding, an empty stream.
StreamsOf(bytes) ==
    {bytes, <<2>> \o Tail(bytes), <<255>> \o Tail(bytes),
     SubSeq(bytes, 1, Len(bytes) - 1), <<>>}

\* A behaviour is one call on one transaction: the operations are pure and
\* keep nothing between calls.
ValidateFunding ==
    /\ last = NoCall
    /\ \E fee_consensus \in FeeSchedules, overflow_checks \in BOOLEAN :
         last' = [op  |-> "validate_funding",
                  fee_consensus |-> fee_consensus,
                  res |-> validate_funding(tx, fee_consensus, overflow_checks)]
    /\ UNCHANGED tx

ValidateSignature ==
    /\ last = NoCall
    /\ last' = [op |-> "validate_signature", res |-> validate_signature(tx)]
    /\ UNCHANGED tx

TxHash ==
    /\ last = NoCall
    /\ last' = [op |-> "tx_hash", res |-> tx_hash(tx)]
    /\ UNCHANGED tx

\* TransactionItem::fee on an input or an output of the transaction.
ItemFee ==
    /\ last = NoCall
    /\ \E fee_consensus \in FeeSchedules :
         \/ \E i \in 1..Len(tx.inputs) :
              last' = [op |-> "input_fee", index |-> i, fee_consensus |-> fee_consensus,
                       res |-> InputFee(tx.inputs[i], fee_consensus)]
         \/ \E i \in 1..Len(tx.outputs) :
              last' = [op |-> "output_fee", index |-> i, fee_consensus |-> fee_consensus,
                       res |-> OutputFee(tx.outputs[i], fee_consensus)]
    /\ UNCHANGED tx

EncodeCall(kind, value) ==
    [op |-> "consensus_encode", kind |-> kind, value |-> value,
     res |-> consensus_encode(kind, value)]

\* consensus_encode on a value of the transaction: a sequence, an item, a
\* peg-out, its amount, a blind token, a count.
ConsensusEncode ==
    /\ last = NoCall
    /\ \/ last' = EncodeCall("inputs", tx.inputs)
       \/ last' = EncodeCall("outputs", tx.outputs)
       \/ last' = EncodeCall("u64", Len(tx.inputs))
       \/ \E i \in 1..Len(tx.inputs) : last' = EncodeCall("input", tx.inputs[i])
       \/ \E i \in 1..Len(tx.outputs) : last' = EncodeCall("output", tx.outputs[i])
       \/ \E i \in 1..Len(tx.outputs) :
            /\ tx.outputs[i].tag = "PegOut"
            /\ \/ last' = EncodeCall("peg_out", tx.outputs[i].peg_out)
               \/ last' = EncodeCall("amount", tx.outputs[i].peg_out.amount)
       \/ \E i \in 1..Len(tx.outputs) :
            /\ tx.outputs[i].tag = "Coins"
            /\ \E j \in 1..Len(CoinsIter(tx.outputs[i].coins)) :
                 last' = EncodeCall("blind_token", CoinsIter(tx.outputs[i].coins)[j][2])
    /\ UNCHANGED tx

ConsensusDecodeInput ==
    /\ last = NoCall
    /\ \E i \in 1..Len(tx.inputs) : \E bytes \in StreamsOf(EncodeInput(tx.inputs[i]).bytes) :
         last' = [op |-> "decode_input", index |-> i, bytes |-> bytes,
                  res |-> DecodeInput(bytes)]
    /\ UNCHANGED tx

ConsensusDecodeOutput ==
    /\ last = NoCall
    /\ \E i \in 1..Len(tx.outputs) : \E bytes \in StreamsOf(EncodeOutput(tx.outputs[i]).bytes) :
         last' = [op |-> "decode_output", index |-> i, bytes |-> bytes,
                  res |-> DecodeOutput(bytes)]
    /\ UNCHANGED tx

Next ==
    \/ ValidateFunding
    \/ ValidateSignature
    \/ TxHash
    \/ ItemFee
    \/ ConsensusEncode
    \/ ConsensusDecodeInput
    \/ ConsensusDecodeOutput

Spec == Init /\ [][Next]_vars

\* The transactions none of whose sums leaves the range of Amount.
InRange(t) ==
    /\ ExactIn(t) < AmountModulus
    /\ ExactOut(t) + MaxSize * MaxFee < AmountModulus

InitInRange == Init /\ InRange(tx)

SpecInRange == InitInRange /\ [][Next]_vars

(***************************************************************************)
(* C1: validate_funding returns Ok(()) if and only if the sum of the input *)
(* amounts is at least the sum of the output amounts plus the sum of all   *)
(* input and output fees.                                                  *)
(***************************************************************************)
C1_FundingIff ==
    last.op = "validate_funding" =>
      (last.res = Ok <=>
         ExactIn(tx) >= ExactOut(tx) + ExactFee(tx, last.fee_consensus))

(***************************************************************************)
(* C2: the fee of a Coins input or output is fee_coin_spend_abs times the  *)
(* number of coin units of the bundle, every coin of every tier counted;   *)
(* a PegIn owes fee_peg_in_abs and a PegOut fee_peg_out_abs, whatever      *)
(* their amounts.                                                          *)
(***************************************************************************)
C2_ItemFee ==
    /\ last.op = "input_fee" =>
         last.res = [milli_sat |-> ExactInputFee(tx.inputs[last.index], last.fee_consensus),
                     ovf |-> FALSE]
    /\ last.op = "output_fee" =>
         last.res = [milli_sat |-> ExactOutputFee(tx.outputs[last.index], last.fee_consensus),
                     ovf |-> FALSE]

(***************************************************************************)
(* C3: a transaction whose input total equals its output total plus its    *)
(* fee total validates as funded; with an input total one unit lower it is *)
(* rejected with InsufficientlyFunded holding exactly the three sums.      *)
(***************************************************************************)
C3_FundingBoundary ==
    last.op = "validate_funding" =>
      LET i == ExactIn(tx)
          o == ExactOut(tx)
          f == ExactFee(tx, last.fee_consensus)
      IN  /\ i = o + f => last.res = Ok
          /\ i + 1 = o + f => last.res = InsufficientlyFunded(i, o, f)

(***************************************************************************)
(* C4: the end-to-end scenario.  fee_coin_spend_abs = 1, one Coins input   *)
(* worth 1000, one Coins output of 2 coin units.                           *)
(***************************************************************************)
ScenarioCall ==
    /\ last.op = "validate_funding"
    /\ last.fee_consensus.fee_coin_spend_abs = 1
    /\ Len(tx.inputs) = 1 /\ tx.inputs[1].tag = "Coins"
    /\ ExactCoinsAmount(tx.inputs[1].coins) = 1000
    /\ Len(tx.outputs) = 1 /\ tx.outputs[1].tag = "Coins"
    /\ UnitCount(tx.outputs[1].coins) = 2

\* The scenario with every coin in a tier of its own: one input coin, two
\* output coins of different tiers.
ScenarioCallDistinct ==
    /\ ScenarioCall
    /\ UnitCount(tx.inputs[1].coins) = 1
    /\ Cardinality(DOMAIN tx.outputs[1].coins.coins) = 2

C5_SignatureIff ==
    last.op = "validate_signature" =>
      /\ last.res \in {Ok, [tag |-> "InvalidSignature"]}
      /\ last.res = Ok <=>
           MusigVerify(tx_hash_from_parts(tx.inputs, tx.outputs), tx.signature,
                       RequiredKeys(tx.inputs))

\* An accepted transaction with a Coins input and a PegIn input.
C5_Witness ==
    /\ last.op = "validate_signature"
    /\ last.res = Ok
    /\ \E i, j \in 1..Len(tx.inputs) :
         /\ tx.inputs[i].tag = "Coins" /\ UnitCount(tx.inputs[i].coins) > 0
         /\ tx.inputs[j].tag = "PegIn"

(***************************************************************************)
(* C6: once validate_signature succeeds, the transaction with any input,   *)
(* any output or the signature changed fails with InvalidSignature.        *)
(***************************************************************************)
AllInputs == UNION {InputsOfSize(k) : k \in 1..MaxSize}

AllOutputs == UNION {OutputsOfSize(k) : k \in 1..MaxSize}

C6_TamperFails ==
    (last.op = "validate_signature" /\ last.res = Ok) =>
      /\ \A i \in 1..Len(tx.inputs) : \A x \in AllInputs \ {tx.inputs[i]} :
           validate_signature([tx EXCEPT !.inputs[i] = x]).tag = "InvalidSignature"
      /\ \A i \in 1..Len(tx.outputs) : \A x \in AllOutputs \ {tx.outputs[i]} :
           validate_signature([tx EXCEPT !.outputs[i] = x]).tag = "InvalidSignature"
      /\ \A sig \in SignaturesFor(tx.inputs, tx.outputs) \ {tx.signature} :
           validate_signature([tx EXCEPT !.signature = sig]).tag = "InvalidSignature"

(***************************************************************************)
(* C7: tx_hash(tx) is tx_hash_from_parts(tx.inputs, tx.outputs) and does   *)
(* not depend on the signature: the transaction has the same id with any   *)
(* other signature.                                                        *)
(***************************************************************************)
C7_HashIgnoresSignature ==
    last.op = "tx_hash" =>
      /\ last.res = tx_hash_from_parts(tx.inputs, tx.outputs)
      /\ \A sig \in SignaturesFor(tx.inputs, tx.outputs) :
           tx_hash([tx EXCEPT !.signature = sig]) = last.res

\* A hashed transaction that has inputs and outputs and could carry
\* another signature.
C7_Witness ==
    /\ last.op = "tx_hash"
    /\ tx.inputs # <<>> /\ tx.outputs # <<>>
    /\ \E sig \in SignaturesFor(tx.inputs, tx.outputs) : sig # tx.signature

(***************************************************************************)
(* C8: decoding the bytes that encoding an Input or an Output produced     *)
(* returns a value equal to the one encoded.                               *)
(***************************************************************************)
C8_RoundTrip ==
    /\ (last.op = "decode_input"
        /\ last.bytes = EncodeInput(tx.inputs[last.index]).bytes) =>
         (last.res.ok /\ last.res.value = tx.inputs[last.index])
    /\ (last.op = "decode_output"
        /\ last.bytes = EncodeOutput(tx.outputs[last.index]).bytes) =>
         (last.res.ok /\ last.res.value = tx.outputs[last.index])

(***************************************************************************)
(* C9: decoding an Input or an Output from a byte stream whose first byte  *)
(* is neither 0x00 nor 0x01 fails with DecodeError and yields no value.    *)
(***************************************************************************)
C9_DiscriminantRejected ==
    (last.op \in {"decode_input", "decode_output"}
     /\ last.bytes # <<>> /\ last.bytes[1] \notin {0, 1}) =>
      last.res = DecodeError

C9_Witness ==
    /\ last.op \in {"decode_input", "decode_output"}
    /\ last.bytes # <<>> /\ last.bytes[1] = 255 /\ Len(last.bytes) > 9
    /\ last.res = DecodeError

(***************************************************************************)
(* C10: the length consensus_encode returns is the number of bytes it      *)
(* wrote: a sequence reports 8 plus the sum of its elements' lengths, an   *)
(* Input or Output 1 plus its payload's length, and a BlindToken writes    *)
(* the 48 bytes it reports.                                                *)
(***************************************************************************)
InputPayloadBytes(input) ==
    IF input.tag = "Coins" THEN EncodeCoins(input.coins, CoinItems(input.coins)).bytes
    ELSE EncodePegInProof(input.proof).bytes

OutputPayloadBytes(output) ==
    IF output.tag = "Coins" THEN EncodeCoins(output.coins, TokenItems(output.coins)).bytes
    ELSE EncodePegOut(output.peg_out).bytes

C10_LengthIsBytesWritten ==
    last.op = "consensus_encode" =>
      /\ last.res.len = Len(last.res.bytes)
      /\ last.kind = "inputs" =>
           last.res.len = 8 + SeqSum([i \in 1..Len(last.value) |->
                                        Len(EncodeInput(last.value[i]).bytes)])
      /\ last.kind = "outputs" =>
           last.res.len = 8 + SeqSum([i \in 1..Len(last.value) |->
                                        Len(EncodeOutput(last.value[i]).bytes)])
      /\ last.kind = "input" => last.res.len = 1 + Len(InputPayloadBytes(last.value))
      /\ last.kind = "output" => last.res.len = 1 + Len(OutputPayloadBytes(last.value))
      /\ last.kind = "blind_token" => (last.res.len = 48 /\ Len(last.res.bytes) = 48)
      /\ last.kind \in {"u64", "amount"} => last.res.len = 8

\* A sequence of two inputs was encoded.
C10_Witness ==
    /\ last.op = "consensus_encode"
    /\ last.kind = "inputs"
    /\ Len(last.value) = 2
    /\ last.res.len = Len(last.res.bytes)

(***************************************************************************)
(* C11: the byte stream tx_hash_from_parts feeds to the hash engine is the *)
(* input count as 8 little-endian bytes, each input in order as one        *)
(* discriminant byte (0 = Coins, 1 = PegIn) and its payload, the output    *)
(* count as 8 little-endian bytes, each output in order as one             *)
(* discriminant byte (0 = Coins, 1 = PegOut) and its payload.              *)
(***************************************************************************)
HashStream(inputs, outputs) ==
    LeBytes(Len(inputs), 8)
    \o Flatten([i \in 1..Len(inputs) |->
                  <<IF inputs[i].tag = "Coins" THEN 0 ELSE 1>>
                  \o InputPayloadBytes(inputs[i])])
    \o LeBytes(Len(outputs), 8)
    \o Flatten([i \in 1..Len(outputs) |->
                  <<IF outputs[i].tag = "Coins" THEN 0 ELSE 1>>
                  \o OutputPayloadBytes(outputs[i])])

C11_HashStream ==
    last.op = "tx_hash" =>
      /\ last.res.digest_of = HashStream(tx.inputs, tx.outputs)
      /\ tx_hash_from_parts(tx.inputs, tx.outputs) = last.res

\* A hashed transaction with a Coins input, a PegIn input and an output.
C11_Witness ==
    /\ last.op = "tx_hash"
    /\ \E i, j \in 1..Len(tx.inputs) :
         /\ tx.inputs[i].tag = "Coins" /\ UnitCount(tx.inputs[i].coins) > 0
         /\ tx.inputs[j].tag = "PegIn"
    /\ tx.outputs # <<>>
    /\ last.res.digest_of = HashStream(tx.inputs, tx.outputs)

(***************************************************************************)
(* C12: a PegOut encodes as the consensus encoding of its recipient's      *)
(* output script followed by its amount as 8 little-endian bytes of        *)
(* satoshi, so PegOuts with the same output script and the same amount     *)
(* have the same bytes whatever the network of the recipient.              *)
(***************************************************************************)
C12_PegOutBytes ==
    (last.op = "consensus_encode" /\ last.kind = "peg_out") =>
      /\ last.res.bytes = EncodeScript(last.value.recipient.script).bytes
                          \o LeBytes(last.value.amount, 8)
      /\ \A network \in Networks :
           EncodePegOut([last.value EXCEPT !.recipient.network = network]).bytes
             = last.res.bytes

\* A PegOut to a testnet address was encoded; the same script on bitcoin
\* is another PegOut value.
C12_Witness ==
    /\ last.op = "consensus_encode" /\ last.kind = "peg_out"
    /\ last.value.recipient.network = "testnet"
    /\ [last.value EXCEPT !.recipient.network = "bitcoin"] # last.value
    /\ EncodePegOut([last.value EXCEPT !.recipient.network = "bitcoin"]).bytes
         = last.res.bytes

(***************************************************************************)
(* C13: validate_funding never returns Ok(()) for a transaction whose      *)
(* exact input total is smaller than its exact output total plus its exact *)
(* fee total, also when a sum, a fee product, a satoshi conversion or      *)
(* out_amount + fee_amount leaves the range of Amount.                     *)
(***************************************************************************)
C13_NoWrappedAccept ==
    (last.op = "validate_funding" /\ last.res = Ok) =>
      ExactIn(tx) >= ExactOut(tx) + ExactFee(tx, last.fee_consensus)

=============================================================================
